---- MODULE Spec2Model ----
(***************************************************************************)
(* A state-machine model of src/main.c: a libevent program that registers  *)
(* a persistent 30 s timer, a SIGINT handler, a raw listening socket on    *)
(* :8888 (manual accept + recv) and an evconnlistener on :7777             *)
(* (bufferevents), and then runs event_base_dispatch.                      *)
(*                                                                         *)
(* The program's own code (main and the cb_* callbacks) is translated      *)
(* statement by statement.  The libevent calls it makes are modelled by    *)
(* their documented behaviour (libevent 2.1):                              *)
(*   - event_base_loop: one pass = poll (level triggered), activate what   *)
(*     is ready, run every active callback, then test event_gotterm at     *)
(*     the top of the next iteration;                                      *)
(*   - event_base_loopexit(base, NULL): activates a one-shot event whose   *)
(*     callback sets event_gotterm; it runs in the same pass;              *)
(*   - event_del on the running event is allowed;                          *)
(*   - a bufferevent reads everything that is readable into its input      *)
(*     buffer and runs the read callback once per such read; on read()     *)
(*     returning 0 / -1 it runs the event callback with EOF / ERROR;       *)
(*   - an evconnlistener accepts until accept() would block.               *)
(*   - a signal event is made active with the number of signals caught     *)
(*     since the last poll and its callback runs that many times.          *)
(* The kernel and the clients are the environment: clients connect, write, *)
(* close or reset; SIGINT is delivered; time passes.                       *)
(* format_address, which cb_read_socket calls only to print the peer, is   *)
(* modelled as a function and called on its own under FmtSpec.             *)
(***************************************************************************)
EXTENDS Integers, Sequences, FiniteSets, TLC

\* ---------------------------------------------------------------- bounds
\* Connections clients make, to either port, over a run.
MaxConns == 2
\* Writes the clients make, on all connections together, over a run.
MaxWrites == 1
\* SIGINT deliveries that may be caught and not yet dispatched.
MaxSignals == 2
\* Seconds by which one step of the clock advances time.
TickS == 30

\* ------------------------------------------------------ program constants
\* struct timeval TIMEOUT_S = {30, 0}
TIMEOUT_S == 30
\* char buf[1024] in cb_read_socket and cb_lev_read_socket
BUF_SIZE == 1024
\* int backlog_sz = 1
backlog_sz == 1

\* Sizes of the writes a client makes.
WriteSizes == {5, 2000}

\* Descriptor numbers: 0..2 are the standard streams, the rest is enough for
\* both listeners and every connection of a run.
Fds == 0..(4 + MaxConns)

NULL == 0

Min(a, b) == IF a < b THEN a ELSE b

VARIABLES
  pc,            \* main's position: the setup step to run next, then the loop
  exit_status,   \* -1 while the process lives, else its exit status
  failed,        \* the setup steps whose call reported a failure
  openFds,       \* the descriptors open in the process
  sock,          \* per descriptor: the connection behind it, seen from the kernel
  pending88,     \* completed connections waiting in :8888's accept queue
  pending77,     \* the same for :7777
  timerAdded,    \* event_timer is pending in the base
  timer_left,    \* seconds until event_timer's timeout elapses
  sigintAdded,   \* event_sigint is pending in the base
  sig_ncaught,   \* SIGINTs caught and not yet dispatched
  listenerAdded, \* event_listener (:8888) is pending in the base
  levAdded,      \* lev_listener (:7777) exists and is enabled
  conns,         \* every conn_state_t allocated, in allocation order
  bevs,          \* every bufferevent created, in creation order
  activeq,       \* the base's active queue: callbacks still to run in this pass
  event_gotterm, \* the base's flag: leave the loop at the top of the next pass
  last,          \* the callback the latest step ran, NoCb if it ran none
  listener,      \* the descriptor socket() returned to main, -1 before
  nwrites,       \* writes the clients have made so far
  call           \* a call of one function on its own: its inputs and its result

vars == <<pc, exit_status, failed, openFds, sock, pending88, pending77,
          timerAdded, timer_left, sigintAdded, sig_ncaught, listenerAdded,
          levAdded, conns, bevs, activeq, event_gotterm, last, listener,
          nwrites, call>>

LoopPcs == {"loop_top", "loop_pass"}
Terminal == {"exited", "crashed"}

NoSock == [avail |-> 0, st |-> "none"]
NewSock == [avail |-> 0, st |-> "open"]
NoCb == [cb |-> "none", id |-> 0, n |-> 0]
NoCall == [fn |-> "none"]

\* The process before main's first statement.
ProcInit ==
  /\ pc = "event_base_new"
  /\ exit_status = -1
  /\ failed = {}
  /\ openFds = {0, 1, 2}
  /\ sock = [fd \in Fds |-> NoSock]
  /\ pending88 = 0
  /\ pending77 = 0
  /\ timerAdded = FALSE
  /\ timer_left = 0
  /\ sigintAdded = FALSE
  /\ sig_ncaught = 0
  /\ listenerAdded = FALSE
  /\ levAdded = FALSE
  /\ conns = <<>>
  /\ bevs = <<>>
  /\ activeq = {}
  /\ event_gotterm = FALSE
  /\ last = NoCb
  /\ listener = -1
  /\ nwrites = 0

Init == ProcInit /\ call = NoCall

\* The lowest descriptor not in use, as socket() and accept() return it.
LowestFree(open) == CHOOSE fd \in Fds \ open : \A g \in Fds \ open : fd <= g

\* ------------------------------------------------------------------ main
\* perror(...); return 1;
Fatal(step) ==
  /\ failed' = failed \cup {step}
  /\ pc' = "exited"
  /\ exit_status' = 1

\* A setup step whose failure main tests: on failure perror and return 1.
Checked(step, next, ok) ==
  IF ok THEN pc' = next /\ UNCHANGED <<failed, exit_status>>
        ELSE Fatal(step)

main_event_base_new ==
  /\ pc = "event_base_new"
  /\ \E ok \in BOOLEAN : Checked("event_base_new", "add_timer", ok)
  /\ last' = NoCb
  /\ UNCHANGED <<openFds, sock, pending88, pending77, timerAdded, timer_left,
                 sigintAdded, sig_ncaught, listenerAdded, levAdded, conns,
                 bevs, activeq, event_gotterm, listener, nwrites, call>>

\* event_new(base, 0, EV_TIMEOUT | EV_PERSIST, cb_timer, &TIMEOUT_S);
\* event_add(event_timer, &TIMEOUT_S)
main_add_timer ==
  /\ pc = "add_timer"
  /\ \E ok \in BOOLEAN :
       /\ Checked("add_timer", "add_sigint", ok)
       /\ timerAdded' = ok
       /\ timer_left' = IF ok THEN TIMEOUT_S ELSE timer_left
  /\ last' = NoCb
  /\ UNCHANGED <<openFds, sock, pending88, pending77, sigintAdded,
                 sig_ncaught, listenerAdded, levAdded, conns, bevs, activeq,
                 event_gotterm, listener, nwrites, call>>

\* evsignal_new(base, SIGINT, cb_sigint, base); evsignal_add(event_sigint, NULL)
main_add_sigint ==
  /\ pc = "add_sigint"
  /\ \E ok \in BOOLEAN :
       /\ Checked("add_sigint", "socket", ok)
       /\ sigintAdded' = ok
  /\ last' = NoCb
  /\ UNCHANGED <<openFds, sock, pending88, pending77, timerAdded, timer_left,
                 sig_ncaught, listenerAdded, levAdded, conns, bevs, activeq,
                 event_gotterm, listener, nwrites, call>>

\* listener = socket(AF_INET, SOCK_STREAM, 0)
main_socket ==
  /\ pc = "socket"
  /\ \E ok \in BOOLEAN :
       /\ Checked("socket", "nonblocking", ok)
       /\ listener' = IF ok THEN LowestFree(openFds) ELSE -1
       /\ openFds' = IF ok THEN openFds \cup {LowestFree(openFds)} ELSE openFds
  /\ last' = NoCb
  /\ UNCHANGED <<sock, pending88, pending77, timerAdded, timer_left,
                 sigintAdded, sig_ncaught, listenerAdded, levAdded, conns,
                 bevs, activeq, event_gotterm, nwrites, call>>

\* evutil_make_socket_nonblocking(listener);  -- the result is not looked at
main_make_nonblocking ==
  /\ pc = "nonblocking"
  /\ \E ok \in BOOLEAN :
       failed' = IF ok THEN failed ELSE failed \cup {"nonblocking"}
  /\ pc' = "reuseaddr"
  /\ last' = NoCb
  /\ UNCHANGED <<exit_status, openFds, sock, pending88, pending77, timerAdded,
                 timer_left, sigintAdded, sig_ncaught, listenerAdded, levAdded,
                 conns, bevs, activeq, event_gotterm, listener, nwrites, call>>

\* setsockopt(listener, SOL_SOCKET, SO_REUSEADDR, ...)
main_setsockopt ==
  /\ pc = "reuseaddr"
  /\ \E ok \in BOOLEAN : Checked("reuseaddr", "bind", ok)
  /\ last' = NoCb
  /\ UNCHANGED <<openFds, sock, pending88, pending77, timerAdded, timer_left,
                 sigintAdded, sig_ncaught, listenerAdded, levAdded, conns,
                 bevs, activeq, event_gotterm, listener, nwrites, call>>

\* bind(listener, &sin88, sizeof(sin88))
main_bind ==
  /\ pc = "bind"
  /\ \E ok \in BOOLEAN : Checked("bind", "listen", ok)
  /\ last' = NoCb
  /\ UNCHANGED <<openFds, sock, pending88, pending77, timerAdded, timer_left,
                 sigintAdded, sig_ncaught, listenerAdded, levAdded, conns,
                 bevs, activeq, event_gotterm, listener, nwrites, call>>

\* listen(listener, backlog_sz)
main_listen ==
  /\ pc = "listen"
  /\ \E ok \in BOOLEAN : Checked("listen", "add_listener", ok)
  /\ last' = NoCb
  /\ UNCHANGED <<openFds, sock, pending88, pending77, timerAdded, timer_left,
                 sigintAdded, sig_ncaught, listenerAdded, levAdded, conns,
                 bevs, activeq, event_gotterm, listener, nwrites, call>>

\* event_new(base, listener, EV_READ | EV_PERSIST, cb_accept_conn, base);
\* event_add(event_listener, NULL)
main_add_listener ==
  /\ pc = "add_listener"
  /\ \E ok \in BOOLEAN :
       /\ Checked("add_listener", "lev_listener", ok)
       /\ listenerAdded' = ok
  /\ last' = NoCb
  /\ UNCHANGED <<openFds, sock, pending88, pending77, timerAdded, timer_left,
                 sigintAdded, sig_ncaught, levAdded, conns, bevs, activeq,
                 event_gotterm, listener, nwrites, call>>

\* evconnlistener_new_bind(base, cb_lev_accept, ...): socket, bind, listen and
\* the listener's own read event; then printf and event_base_dispatch(base).
main_lev_listener ==
  /\ pc = "lev_listener"
  /\ \E ok \in BOOLEAN :
       /\ Checked("lev_listener", "loop_top", ok)
       /\ levAdded' = ok
       /\ openFds' = IF ok THEN openFds \cup {LowestFree(openFds)} ELSE openFds
  /\ last' = NoCb
  /\ UNCHANGED <<sock, pending88, pending77, timerAdded, timer_left,
                 sigintAdded, sig_ncaught, listenerAdded, conns, bevs, activeq,
                 event_gotterm, listener, nwrites, call>>

\* event_base_dispatch(base) has returned: return 0;
main_return ==
  /\ pc = "returned"
  /\ pc' = "exited"
  /\ exit_status' = 0
  /\ last' = NoCb
  /\ UNCHANGED <<failed, openFds, sock, pending88, pending77, timerAdded,
                 timer_left, sigintAdded, sig_ncaught, listenerAdded, levAdded,
                 conns, bevs, activeq, event_gotterm, listener, nwrites, call>>

\* ----------------------------------------------------------- environment
\* The process is running and has not left the dispatch loop.
Alive == pc \notin Terminal /\ pc # "returned"

\* Connections made so far: accepted ones and those still waiting.
NConns == Len(conns) + pending88 + Len(bevs) + pending77

\* The program still watches this connection's descriptor: what the client
\* does on a connection nobody reads any more changes nothing the program sees.
Watched(fd) ==
  \/ \E i \in DOMAIN conns : conns[i].fd = fd /\ conns[i].ev = "added"
  \/ \E i \in DOMAIN bevs : bevs[i].fd = fd /\ bevs[i].alive /\ bevs[i].enabled

\* The bytes the client has written on bufferevent i's connection.
Sent(bs, fd, n) ==
  [i \in DOMAIN bs |->
     IF bs[i].fd = fd /\ bs[i].alive THEN [bs[i] EXCEPT !.sent = @ + n]
     ELSE bs[i]]

\* Time passes.
Tick ==
  /\ Alive /\ timerAdded /\ timer_left > 0
  /\ timer_left' = IF timer_left > TickS THEN timer_left - TickS ELSE 0
  /\ last' = NoCb
  /\ UNCHANGED <<pc, exit_status, failed, openFds, sock, pending88, pending77,
                 timerAdded, sigintAdded, sig_ncaught, listenerAdded, levAdded,
                 conns, bevs, activeq, event_gotterm, listener, nwrites, call>>

\* SIGINT arrives; libevent's handler notes it for the next poll.
DeliverSignal ==
  /\ Alive /\ sigintAdded /\ sig_ncaught < MaxSignals
  /\ sig_ncaught' = sig_ncaught + 1
  /\ last' = NoCb
  /\ UNCHANGED <<pc, exit_status, failed, openFds, sock, pending88, pending77,
                 timerAdded, timer_left, sigintAdded, listenerAdded, levAdded,
                 conns, bevs, activeq, event_gotterm, listener, nwrites, call>>

\* A client completes a connection to :8888; it waits in the accept queue.
ClientConnect88 ==
  /\ pc \in {"add_listener", "lev_listener"} \cup LoopPcs
  /\ pending88 < backlog_sz + 1
  /\ NConns < MaxConns
  /\ pending88' = pending88 + 1
  /\ last' = NoCb
  /\ UNCHANGED <<pc, exit_status, failed, openFds, sock, pending77, timerAdded,
                 timer_left, sigintAdded, sig_ncaught, listenerAdded, levAdded,
                 conns, bevs, activeq, event_gotterm, listener, nwrites, call>>

\* A client completes a connection to :7777.
ClientConnect77 ==
  /\ pc \in LoopPcs /\ levAdded
  /\ pending77 < backlog_sz + 1
  /\ NConns < MaxConns
  /\ pending77' = pending77 + 1
  /\ last' = NoCb
  /\ UNCHANGED <<pc, exit_status, failed, openFds, sock, pending88, timerAdded,
                 timer_left, sigintAdded, sig_ncaught, listenerAdded, levAdded,
                 conns, bevs, activeq, event_gotterm, listener, nwrites, call>>

\* The client of an accepted connection writes n bytes; they arrive whole.
ClientSend(fd, n) ==
  /\ Alive /\ Watched(fd) /\ sock[fd].st = "open"
  /\ sock[fd].avail = 0 /\ nwrites < MaxWrites
  /\ sock' = [sock EXCEPT ![fd].avail = n]
  /\ bevs' = Sent(bevs, fd, n)
  /\ nwrites' = nwrites + 1
  /\ last' = NoCb
  /\ UNCHANGED <<pc, exit_status, failed, openFds, pending88, pending77,
                 timerAdded, timer_left, sigintAdded, sig_ncaught,
                 listenerAdded, levAdded, conns, activeq, event_gotterm,
                 listener, call>>

\* The client closes its end: after the bytes still queued, reads return 0.
ClientClose(fd) ==
  /\ Alive /\ Watched(fd) /\ sock[fd].st = "open"
  /\ sock' = [sock EXCEPT ![fd].st = "fin"]
  /\ last' = NoCb
  /\ UNCHANGED <<pc, exit_status, failed, openFds, pending88, pending77,
                 timerAdded, timer_left, sigintAdded, sig_ncaught,
                 listenerAdded, levAdded, conns, bevs, activeq, event_gotterm, listener, nwrites, call>>

\* The connection is reset: queued bytes are dropped, reads return -1.
ClientReset(fd) ==
  /\ Alive /\ Watched(fd) /\ sock[fd].st = "open"
  /\ sock' = [sock EXCEPT ![fd] = [@ EXCEPT !.st = "err", !.avail = 0]]
  /\ last' = NoCb
  /\ UNCHANGED <<pc, exit_status, failed, openFds, pending88, pending77,
                 timerAdded, timer_left, sigintAdded, sig_ncaught,
                 listenerAdded, levAdded, conns, bevs, activeq, event_gotterm, listener, nwrites, call>>

\* ------------------------------------------------------------ the reactor
\* A descriptor polls readable: bytes queued, end of stream or a pending error.
Readable(fd) == sock[fd].avail > 0 \/ sock[fd].st \in {"fin", "err"}

\* recv(fd, buf, len, 0) on a non-blocking socket: (result, bytes left queued).
recv(fd, len) ==
  IF sock[fd].st = "err" THEN -1
  ELSE IF sock[fd].avail > 0 THEN Min(sock[fd].avail, len)
  ELSE IF sock[fd].st = "fin" THEN 0
  ELSE -1

\* A slip in the set below: an event that event_del has removed is still
\* polled.
Ready_AfterDel ==
  LET If(c, e) == IF c THEN {e} ELSE {} IN
       If(timerAdded /\ timer_left = 0, <<"timer", 0>>)
  \cup If(sigintAdded /\ sig_ncaught > 0, <<"sigint", sig_ncaught>>)
  \cup If(listenerAdded /\ pending88 > 0, <<"listener", 0>>)
  \cup If(levAdded /\ pending77 > 0, <<"lev", 0>>)
  \cup {<<"raw", i>> : i \in {j \in DOMAIN conns :
                                conns[j].ev \in {"added", "deleted"}
                                /\ Readable(conns[j].fd)}}
  \cup {<<"bev", i>> : i \in {j \in DOMAIN bevs :
                                bevs[j].alive /\ bevs[j].enabled
                                /\ Readable(bevs[j].fd)}}

\* The registrations whose interest is satisfied now.  The signal event is
\* made active with the number of SIGINTs caught since the last poll.
Ready ==
  LET If(c, e) == IF c THEN {e} ELSE {} IN
       If(timerAdded /\ timer_left = 0, <<"timer", 0>>)
  \cup If(sigintAdded /\ sig_ncaught > 0, <<"sigint", sig_ncaught>>)
  \cup If(listenerAdded /\ pending88 > 0, <<"listener", 0>>)
  \cup If(levAdded /\ pending77 > 0, <<"lev", 0>>)
  \cup {<<"raw", i>> : i \in {j \in DOMAIN conns :
                                conns[j].ev = "added" /\ Readable(conns[j].fd)}}
  \cup {<<"bev", i>> : i \in {j \in DOMAIN bevs :
                                bevs[j].alive /\ bevs[j].enabled
                                /\ Readable(bevs[j].fd)}}

\* event_haveevents: something is still registered with the base.
event_haveevents ==
  \/ timerAdded \/ sigintAdded \/ listenerAdded \/ levAdded
  \/ \E i \in DOMAIN conns : conns[i].ev = "added"
  \/ \E i \in DOMAIN bevs : bevs[i].alive

\* A slip in the loop below: event_gotterm is looked at only when nothing is
\* ready, so a pass is started for whatever became ready meanwhile.
event_base_loop_PollFirst ==
  /\ pc = "loop_top"
  /\ IF Ready = {}
       THEN /\ event_gotterm \/ ~event_haveevents
            /\ pc' = "returned"
            /\ UNCHANGED <<activeq, sig_ncaught>>
       ELSE /\ activeq' = Ready
            /\ sig_ncaught' = IF sigintAdded THEN 0 ELSE sig_ncaught
            /\ pc' = "loop_pass"
  /\ last' = NoCb
  /\ UNCHANGED <<exit_status, failed, openFds, sock, pending88, pending77,
                 timerAdded, timer_left, sigintAdded, listenerAdded, levAdded,
                 conns, bevs, event_gotterm, listener, nwrites, call>>

\* One iteration of event_base_loop up to the processing of the active queue:
\* leave if asked to or if nothing is registered, else wait until something is
\* ready and make it active; the SIGINTs caught so far are counted into the
\* signal event's activation.
event_base_loop ==
  /\ pc = "loop_top"
  /\ IF event_gotterm \/ ~event_haveevents
       THEN pc' = "returned" /\ UNCHANGED <<activeq, sig_ncaught>>
       ELSE /\ Ready # {}
            /\ activeq' = Ready
            /\ sig_ncaught' = IF sigintAdded THEN 0 ELSE sig_ncaught
            /\ pc' = "loop_pass"
  /\ last' = NoCb
  /\ UNCHANGED <<exit_status, failed, openFds, sock, pending88, pending77,
                 timerAdded, timer_left, sigintAdded, listenerAdded, levAdded,
                 conns, bevs, event_gotterm, listener, nwrites, call>>

\* The callback `cb` is taken off the active queue to be run; `act` is what it
\* activates itself.  The pass ends when the queue is empty.
Run(cb, act) ==
  /\ pc = "loop_pass"
  /\ cb \in activeq
  /\ activeq' = (activeq \ {cb}) \cup act
  /\ pc' = IF activeq' = {} THEN "loop_top" ELSE "loop_pass"

\* What libevent does with an event once its callback has run: an event
\* without EV_PERSIST is no longer pending.
AfterFire(flags, added) == added /\ "EV_PERSIST" \in flags

\* ------------------------------------------------------------- callbacks
\* A slip in the flags below: EV_PERSIST left out.
timer_flags_OneShot == {"EV_TIMEOUT"}

\* event_new(base, fd_timer, EV_TIMEOUT | EV_PERSIST, cb_timer, &TIMEOUT_S)
timer_flags == {"EV_TIMEOUT", "EV_PERSIST"}

\* void cb_timer(fd, what, arg): prints tv->tv_sec.  A persistent timeout is
\* scheduled again, one interval from now, when it fires.
cb_timer ==
  /\ Run(<<"timer", 0>>, {})
  /\ timerAdded' = AfterFire(timer_flags, timerAdded)
  /\ timer_left' = IF AfterFire(timer_flags, timerAdded) THEN TIMEOUT_S ELSE 0
  /\ last' = [cb |-> "cb_timer", id |-> 0, n |-> TIMEOUT_S]
  /\ UNCHANGED <<exit_status, failed, openFds, sock, pending88, pending77,
                 sigintAdded, sig_ncaught, listenerAdded, levAdded, conns,
                 bevs, event_gotterm, listener, nwrites, call>>

\* event_base_loopexit(base, NULL): a one-shot event, active at once, whose
\* callback sets event_gotterm.
event_base_loopexit == {<<"loopexit", 0>>}

\* A slip in the callback below: event_base_loopbreak in place of
\* event_base_loopexit; the loop is left as soon as the callback returns.
cb_sigint_LoopBreak ==
  \E ncalls \in 1..MaxSignals :
    /\ pc = "loop_pass"
    /\ <<"sigint", ncalls>> \in activeq
    /\ activeq' = activeq \ {<<"sigint", ncalls>>}
    /\ pc' = "returned"
    /\ last' = [cb |-> "cb_sigint", id |-> 0, n |-> ncalls]
    /\ UNCHANGED <<exit_status, failed, openFds, sock, pending88, pending77,
                   timerAdded, timer_left, sigintAdded, sig_ncaught,
                   listenerAdded, levAdded, conns, bevs, event_gotterm,
                   listener, nwrites, call>>

\* void cb_sigint(fd, what, arg): libevent runs a signal event's callback once
\* per SIGINT counted into its activation, one call after the other; each call
\* asks the loop to exit.  The one-shot events of several calls act alike and
\* are kept as one entry.
cb_sigint ==
  \E ncalls \in 1..MaxSignals :
    /\ Run(<<"sigint", ncalls>>, event_base_loopexit)
    /\ last' = [cb |-> "cb_sigint", id |-> 0, n |-> ncalls]
    /\ UNCHANGED <<exit_status, failed, openFds, sock, pending88, pending77,
                   timerAdded, timer_left, sigintAdded, sig_ncaught,
                   listenerAdded, levAdded, conns, bevs, event_gotterm,
                   listener, nwrites, call>>

\* libevent's event_loopexit_cb, the callback of the one-shot event.
event_loopexit_cb ==
  /\ Run(<<"loopexit", 0>>, {})
  /\ event_gotterm' = TRUE
  /\ last' = [cb |-> "event_loopexit_cb", id |-> 0, n |-> 0]
  /\ UNCHANGED <<exit_status, failed, openFds, sock, pending88, pending77,
                 timerAdded, timer_left, sigintAdded, sig_ncaught,
                 listenerAdded, levAdded, conns, bevs, listener, nwrites, call>>

\* A slip in the flags below: EV_PERSIST left out.
conn_flags_OneShot == {"EV_READ"}

\* event_new(base, fd, EV_READ | EV_PERSIST, cb_read_socket, state)
conn_flags == {"EV_READ", "EV_PERSIST"}

\* A slip in the test below: an orderly close (0 bytes) is not a disconnect.
Disconnected_OnlyNegative(num_read) == num_read < 0

\* if (num_read < 1): the peer is taken to have disconnected.
Disconnected(num_read) == num_read < 1

\* void cb_read_socket(fd, what, arg) for the conn_state_t conns[i].
cb_read_socket(i) ==
  LET state == conns[i]
      num_read == recv(state.fd, BUF_SIZE)
  IN /\ Run(<<"raw", i>>, {})
     /\ sock' = [sock EXCEPT ![state.fd].avail =
                   IF num_read > 0 THEN @ - num_read ELSE @]
     /\ conns' = [conns EXCEPT ![i].ev =
                   IF Disconnected(num_read) THEN "deleted"   \* event_del
                   ELSE IF AfterFire(conn_flags, TRUE) THEN "added"
                   ELSE "deleted"]
     /\ last' = [cb |-> "cb_read_socket", id |-> i, n |-> num_read]
     /\ UNCHANGED <<exit_status, failed, openFds, pending88, pending77,
                    timerAdded, timer_left, sigintAdded, sig_ncaught,
                    listenerAdded, levAdded, bevs, event_gotterm, listener, nwrites, call>>

\* struct conn_state_t *alloc_conn_state(): the new record's place in conns, or
\* NULL (after perror) when calloc fails.
alloc_conn_state(calloc_ok) ==
  IF calloc_ok
    THEN [state |-> Len(conns) + 1,
          heap |-> Append(conns, [fd |-> -1, ev |-> "null"])]
    ELSE [state |-> NULL, heap |-> conns]

\* void cb_accept_conn(listener, what, arg).  accept() may fail (the
\* connection was aborted while it waited); event_add may fail.  With a NULL
\* state, accept() is handed a null address and still returns the descriptor;
\* the store to state->event_read_socket then faults.
cb_accept_conn ==
  /\ pc = "loop_pass"
  /\ <<"listener", 0>> \in activeq
  /\ activeq' = activeq \ {<<"listener", 0>>}
  /\ \E calloc_ok, accept_ok, add_ok \in BOOLEAN :
       LET a == alloc_conn_state(calloc_ok)
           fd == IF accept_ok THEN LowestFree(openFds) ELSE -1
       IN /\ pending88' = pending88 - 1
          /\ last' = [cb |-> "cb_accept_conn", id |-> a.state, n |-> fd]
          /\ IF fd < 0
               THEN \* perror; return
                    /\ conns' = a.heap
                    /\ pc' = IF activeq' = {} THEN "loop_top" ELSE "loop_pass"
                    /\ UNCHANGED <<openFds, sock, exit_status>>
               ELSE /\ openFds' = openFds \cup {fd}
                    /\ sock' = [sock EXCEPT ![fd] = NewSock]
                    /\ IF a.state = NULL
                         THEN /\ pc' = "crashed"
                              /\ exit_status' = 139
                              /\ conns' = a.heap
                         ELSE /\ conns' = [a.heap EXCEPT ![a.state] =
                                   [fd |-> fd,
                                    ev |-> IF add_ok THEN "added" ELSE "addfail"]]
                              /\ pc' = IF activeq' = {} THEN "loop_top"
                                       ELSE "loop_pass"
                              /\ UNCHANGED exit_status
  /\ UNCHANGED <<failed, pending77, timerAdded, timer_left, sigintAdded,
                 sig_ncaught, listenerAdded, levAdded, bevs, event_gotterm,
                 listener, nwrites, call>>

\* bufferevent_free(bev): the object is gone, its events are deleted and its
\* buffered input is dropped.
bufferevent_free(bev) ==
  [bev EXCEPT !.alive = FALSE, !.enabled = FALSE, !.inbuf = 0]

\* A slip in the callback below: the object is released whatever the flags.
cb_lev_event_Always(bev, events) == bufferevent_free(bev)

\* A slip in the callback below: the object is released on an error only.
cb_lev_event_ErrorOnly(bev, events) ==
  IF "BEV_EVENT_ERROR" \in events THEN bufferevent_free(bev) ELSE bev

\* void cb_lev_event(bev, events, ctx)
cb_lev_event(bev, events) ==
  IF events \cap {"BEV_EVENT_EOF", "BEV_EVENT_ERROR"} # {}
    THEN bufferevent_free(bev)
    ELSE bev

\* void cb_lev_read_socket(bev, ctx): bufferevent_read of at most sizeof(buf).
cb_lev_read_socket(bev) ==
  LET num_read == Min(bev.inbuf, BUF_SIZE)
  IN [bev EXCEPT !.inbuf = @ - num_read, !.delivered = @ + num_read]

\* A slip in the callback below: bufferevent_socket_new is called twice, so
\* two bufferevents read the same descriptor.
cb_lev_accept_Twice(bs, fd) ==
  LET bev == [fd |-> fd, alive |-> TRUE, enabled |-> TRUE, inbuf |-> 0,
              sent |-> 0, delivered |-> 0, close_on_free |-> TRUE]
  IN Append(Append(bs, bev), bev)

\* void cb_lev_accept(listener, fd, addr, socklen, ctx):
\* bufferevent_socket_new(base, fd, BEV_OPT_CLOSE_ON_FREE), bufferevent_setcb,
\* bufferevent_enable(bev, EV_READ).
cb_lev_accept(bs, fd) ==
  Append(bs, [fd |-> fd, alive |-> TRUE, enabled |-> TRUE, inbuf |-> 0,
              sent |-> 0, delivered |-> 0, close_on_free |-> TRUE])

\* The evconnlistener's read callback: accept until accept() would block and
\* hand each descriptor to cb_lev_accept.
RECURSIVE AcceptLoop(_, _, _, _)
AcceptLoop(k, bs, open, sk) ==
  IF k = 0 THEN [bevs |-> bs, openFds |-> open, sock |-> sk]
  ELSE LET fd == LowestFree(open)
       IN AcceptLoop(k - 1, cb_lev_accept(bs, fd), open \cup {fd},
                     [sk EXCEPT ![fd] = NewSock])

lev_listener_cb ==
  LET r == AcceptLoop(pending77, bevs, openFds, sock)
  IN /\ Run(<<"lev", 0>>, {})
     /\ pending77' = 0
     /\ bevs' = r.bevs
     /\ openFds' = r.openFds
     /\ sock' = r.sock
     /\ last' = [cb |-> "cb_lev_accept", id |-> Len(r.bevs), n |-> pending77]
     /\ UNCHANGED <<exit_status, failed, pending88, timerAdded, timer_left,
                    sigintAdded, sig_ncaught, listenerAdded, levAdded, conns,
                    event_gotterm, listener, nwrites, call>>

\* The bufferevent's read event, bytes readable: everything readable is moved
\* into the input buffer, then the read callback runs.
bev_readcb_data(i) ==
  LET bev == bevs[i]
      res == recv(bev.fd, sock[bev.fd].avail)
      filled == [bev EXCEPT !.inbuf = @ + res]
      after == cb_lev_read_socket(filled)
  IN /\ Run(<<"bev", i>>, {})
     /\ res > 0
     /\ sock' = [sock EXCEPT ![bev.fd].avail = @ - res]
     /\ bevs' = [bevs EXCEPT ![i] = after]
     /\ last' = [cb |-> "cb_lev_read_socket", id |-> i,
                 n |-> after.delivered - filled.delivered]
     /\ UNCHANGED <<exit_status, failed, openFds, pending88, pending77,
                    timerAdded, timer_left, sigintAdded, sig_ncaught,
                    listenerAdded, levAdded, conns, event_gotterm, listener, nwrites, call>>

\* The bufferevent's read event, read() returning 0 or -1: reading is
\* disabled and the event callback runs with EOF or ERROR.  A freed
\* bufferevent made with BEV_OPT_CLOSE_ON_FREE closes its descriptor.
bev_readcb_event(i) ==
  LET bev == bevs[i]
      res == recv(bev.fd, sock[bev.fd].avail)
      what == {"BEV_EVENT_READING",
               IF res = 0 THEN "BEV_EVENT_EOF" ELSE "BEV_EVENT_ERROR"}
      after == cb_lev_event([bev EXCEPT !.enabled = FALSE], what)
      closed == ~after.alive /\ bev.close_on_free
  IN /\ Run(<<"bev", i>>, {})
     /\ res < 1
     /\ bevs' = [bevs EXCEPT ![i] = after]
     /\ openFds' = IF closed THEN openFds \ {bev.fd} ELSE openFds
     /\ sock' = IF closed THEN [sock EXCEPT ![bev.fd] = NoSock] ELSE sock
     /\ last' = [cb |-> "cb_lev_event", id |-> i, n |-> res]
     /\ UNCHANGED <<exit_status, failed, pending88, pending77, timerAdded,
                    timer_left, sigintAdded, sig_ncaught, listenerAdded,
                    levAdded, conns, event_gotterm, listener, nwrites, call>>

\* ------------------------------------------------------- format_address
\* The octet values the calls are made with: every decimal width, and the
\* least and the greatest value of each width.
Octets == {0, 1, 9, 10, 99, 100, 168, 192, 255}

\* The byte orders of the hosts the program is built for.
Hosts == {"little", "big"}

\* A uint32_t is kept as its two 16-bit halves, [hi, lo], so that no value
\* leaves the range of TLC's 32-bit integers.
\* The uint32_t a host reads from the four bytes of sin_addr.s_addr, which
\* are in network order: b[1] is the first octet of the address.
s_addr(b, host) ==
  IF host = "big"
    THEN [hi |-> b[1] * 2^8 + b[2], lo |-> b[3] * 2^8 + b[4]]
    ELSE [hi |-> b[4] * 2^8 + b[3], lo |-> b[2] * 2^8 + b[1]]

\* The two bytes of a 16-bit value, swapped.
bswap16(h) == (h % 2^8) * 2^8 + (h \div 2^8)

\* htonl: the identity on a big-endian host, a swap of the four bytes on a
\* little-endian one.
htonl(x, host) ==
  IF host = "big" THEN x
  ELSE [hi |-> bswap16(x.lo), lo |-> bswap16(x.hi)]

Digits == <<"0", "1", "2", "3", "4", "5", "6", "7", "8", "9">>

\* sprintf's %d for a value that is not negative: the characters it writes.
RECURSIVE sprintf_d(_)
sprintf_d(n) ==
  IF n < 10 THEN <<Digits[n + 1]>>
  ELSE sprintf_d(n \div 10) \o <<Digits[(n % 10) + 1]>>

\* char *buf = malloc(15)
ADDR_BUF == 15

\* const char* format_address(uint32_t addr): the buffer returned (its size,
\* NULL when malloc fails), the characters sprintf produces and the number of
\* bytes it stores, the terminating NUL included.
format_address(addr, host, malloc_ok) ==
  LET a == htonl(addr, host)
      first == a.hi \div 2^8       \* (addr & 0xff000000) >> 24
      second == a.hi % 2^8         \* (addr & 0x00ff0000) >> 16
      third == a.lo \div 2^8       \* (addr & 0x0000ff00) >> 8
      fourth == a.lo % 2^8         \* (addr & 0x000000ff)
      text == sprintf_d(first) \o <<".">> \o sprintf_d(second) \o <<".">>
              \o sprintf_d(third) \o <<".">> \o sprintf_d(fourth)
  IN IF malloc_ok
       THEN [buf |-> ADDR_BUF, text |-> text, stored |-> Len(text) + 1]
       ELSE [buf |-> NULL, text |-> <<>>, stored |-> 0]

\* What the caller finds in the returned buffer.  When sprintf stored more
\* bytes than were allocated, the terminating NUL lies outside the allocation
\* and the behaviour is undefined: the byte may fall into the allocator's
\* padding, and the text is intact, or into memory that is somebody else's,
\* and the text then runs on into whatever ("?") that memory holds.
Returned(r) ==
  IF r.stored <= r.buf \/ r.buf = NULL THEN {r.text}
  ELSE {r.text, r.text \o <<"?">>}

\* One call of format_address.
call_format_address ==
  /\ call.fn = "format_address" /\ call.pc = "entry"
  /\ \E malloc_ok \in BOOLEAN :
       LET r == format_address(s_addr(call.bytes, call.host), call.host,
                               malloc_ok)
       IN \E text \in Returned(r) :
            call' = [call EXCEPT !.pc = "done", !.buf = r.buf,
                                 !.text = text, !.stored = r.stored]
  /\ UNCHANGED <<pc, exit_status, failed, openFds, sock, pending88, pending77,
                 timerAdded, timer_left, sigintAdded, sig_ncaught,
                 listenerAdded, levAdded, conns, bevs, activeq, event_gotterm,
                 last, listener, nwrites>>

\* The calls of format_address that are checked: every address made of the
\* octets above, on either host.
FmtInit ==
  /\ ProcInit
  /\ call \in [fn : {"format_address"}, pc : {"entry"},
               bytes : [1..4 -> Octets], host : Hosts,
               buf : {NULL}, text : {<<>>}, stored : {0}]

FmtNext == call_format_address

\* ------------------------------------------------------- specifications
Setup ==
  \/ main_event_base_new \/ main_add_timer \/ main_add_sigint \/ main_socket
  \/ main_make_nonblocking \/ main_setsockopt \/ main_bind \/ main_listen
  \/ main_add_listener \/ main_lev_listener

Environment ==
  \/ Tick \/ DeliverSignal \/ ClientConnect88 \/ ClientConnect77
  \/ \E fd \in Fds : \/ \E n \in WriteSizes : ClientSend(fd, n)
                     \/ ClientClose(fd)
                     \/ ClientReset(fd)

Callbacks ==
  \/ cb_timer \/ cb_sigint \/ event_loopexit_cb \/ cb_accept_conn
  \/ lev_listener_cb
  \/ \E i \in DOMAIN conns : cb_read_socket(i)
  \/ \E i \in DOMAIN bevs : bev_readcb_data(i)
  \/ \E i \in DOMAIN bevs : bev_readcb_event(i)

\* What the process does by itself.
Program == Setup \/ event_base_loop \/ Callbacks \/ main_return

Next == Program \/ Environment

Spec == Init /\ [][Next]_vars

\* The process is scheduled: whenever it can take a step it eventually does.
FairSpec == Spec /\ WF_vars(Program)

\* format_address called on its own.
FmtSpec == FmtInit /\ [][FmtNext]_vars

\* ================================================================ claims
\* The registrations other than the per-connection ones.
FixedRegs == <<timerAdded, timer_left, sigintAdded, listenerAdded, levAdded>>

\* The entry of the active queue a callback record stands for.
EntryOf(l) ==
  CASE l.cb = "cb_timer" -> <<"timer", 0>>
    [] l.cb = "cb_sigint" -> <<"sigint", l.n>>
    [] l.cb = "event_loopexit_cb" -> <<"loopexit", 0>>
    [] l.cb = "cb_accept_conn" -> <<"listener", 0>>
    [] l.cb = "cb_lev_accept" -> <<"lev", 0>>
    [] l.cb = "cb_read_socket" -> <<"raw", l.id>>
    [] l.cb \in {"cb_lev_read_socket", "cb_lev_event"} -> <<"bev", l.id>>
    [] OTHER -> <<"none", 0>>

\* C1: when cb_read_socket runs for an accepted raw connection c and recv
\* returns 0 or a negative value, c's read registration is no longer active
\* afterwards and every other registration (the other raw connections, the
\* bufferevents, both listeners, the timer, the signal) is as it was.
C1_ReadDisconnectFrame ==
  [][\A c \in DOMAIN conns :
       (last'.cb = "cb_read_socket" /\ last'.id = c /\ last'.n < 1)
       => /\ conns[c].ev = "added"
          /\ conns'[c].ev # "added"
          /\ DOMAIN conns' = DOMAIN conns
          /\ \A d \in DOMAIN conns \ {c} : conns'[d] = conns[d]
          /\ bevs' = bevs
          /\ FixedRegs' = FixedRegs]_vars

\* C1's case: a raw connection's callback has just seen recv return < 1 and
\* lost its registration while another raw connection and the four fixed
\* registrations are active.
C1_Witness ==
  /\ last.cb = "cb_read_socket" /\ last.n < 1
  /\ conns[last.id].ev = "deleted"
  /\ \E d \in DOMAIN conns : d # last.id /\ conns[d].ev = "added"
  /\ timerAdded /\ sigintAdded /\ listenerAdded /\ levAdded

\* C2: when cb_lev_event runs for a bufferevent b with end-of-stream or error,
\* b is released and its descriptor closed, and no other connection's
\* bufferevent, descriptor or registration changes.
C2_BevReleaseFrame ==
  [][\A b \in DOMAIN bevs :
       (last'.cb = "cb_lev_event" /\ last'.id = b)
       => /\ last'.n \in {0, -1}
          /\ bevs[b].alive /\ ~bevs'[b].alive
          /\ bevs[b].fd \in openFds
          /\ openFds' = openFds \ {bevs[b].fd}
          /\ DOMAIN bevs' = DOMAIN bevs
          /\ \A d \in DOMAIN bevs \ {b} : bevs'[d] = bevs[d]
          /\ \A fd \in Fds \ {bevs[b].fd} : sock'[fd] = sock[fd]
          /\ conns' = conns
          /\ FixedRegs' = FixedRegs]_vars

\* C2's case: a bufferevent has just been released on end-of-stream while
\* another connection is being served.
C2_Witness ==
  /\ last.cb = "cb_lev_event" /\ last.n = 0
  /\ ~bevs[last.id].alive /\ bevs[last.id].fd \notin openFds
  /\ \/ \E d \in DOMAIN bevs : d # last.id /\ bevs[d].alive
     \/ \E d \in DOMAIN conns : conns[d].ev = "added"

\* The termination signal has been delivered while the loop runs.
SignalPending == pc \in LoopPcs /\ sig_ncaught > 0

\* C3: if the termination signal is delivered while the dispatch loop is
\* running, event_base_dispatch eventually returns.
C3_SignalReturns == SignalPending ~> (pc = "returned")

\* cb_sigint has asked the loop to exit.
ExitRequested == <<"loopexit", 0>> \in activeq \/ event_gotterm

\* C4: after cb_sigint has requested exit, every callback still on the active
\* queue of that pass is invoked before event_base_dispatch returns (it leaves
\* the queue only by being run, and the queue is empty at the return), and no
\* further pass is started.
C4_ExitAfterPass ==
  /\ [](pc = "returned" => activeq = {})
  /\ [][ExitRequested =>
          /\ \A e \in activeq : e \notin activeq' => e = EntryOf(last')
          /\ ~(pc = "loop_top" /\ pc' = "loop_pass")]_vars

\* C4's case: exit has been requested and other callbacks of the same pass are
\* still to run.
C4_Witness ==
  /\ pc = "loop_pass" /\ ExitRequested
  /\ \E e \in activeq : e # <<"loopexit", 0>>

\* C5: each invocation of cb_lev_read_socket delivers at most 1024 bytes, and
\* the bytes delivered on a connection come to the bytes the client sent: on
\* an intact connection, once nothing is left to read from the descriptor and
\* the connection's read event is not active (so that cb_lev_read_socket is
\* not run again unless further bytes arrive), all of them were delivered.
C5_AllBytesDelivered ==
  /\ last.cb = "cb_lev_read_socket" => last.n <= BUF_SIZE
  /\ \A b \in DOMAIN bevs :
       (/\ bevs[b].alive
        /\ sock[bevs[b].fd].st = "open"
        /\ sock[bevs[b].fd].avail = 0
        /\ <<"bev", b>> \notin activeq)
       => bevs[b].delivered = bevs[b].sent

\* C6: the timer registration is persistent: no callback removes it, and while
\* the loop runs an elapsed interval leads to cb_timer firing.
C6_TimerPersistent ==
  /\ [](pc \in LoopPcs => timerAdded)
  /\ ((pc \in LoopPcs /\ timer_left = 0)
        ~> (last.cb = "cb_timer" \/ pc \notin LoopPcs))

\* C6's case: cb_timer has just fired and the timer is pending again, one
\* interval ahead.
C6_Witness ==
  /\ last.cb = "cb_timer" /\ last.n = TIMEOUT_S
  /\ pc \in LoopPcs /\ timerAdded /\ timer_left = TIMEOUT_S

\* C7: a failure of any setup step, setting non-blocking mode included, ends
\* the process with a non-zero status before any later step runs.
C7_SetupFailureFatal ==
  failed # {} => (pc \in Terminal /\ exit_status # 0)

\* C8: when accept fails in cb_accept_conn the callback has no side effect: the
\* listener stays registered and no conn_state_t, descriptor or registration
\* exists afterwards that did not exist before.
C8_AcceptFailureNoEffect ==
  [][(last'.cb = "cb_accept_conn" /\ last'.n < 0)
       => /\ listenerAdded'
          /\ conns' = conns
          /\ bevs' = bevs
          /\ openFds' = openFds
          /\ FixedRegs' = FixedRegs]_vars

\* C9: a failed register call makes the caller abort: once a connection's
\* read registration has failed to be added, no callback runs any more, no
\* new pass is started and the process does not exit with status 0.
C9_RegisterFailureAborts ==
  [][(\E i \in DOMAIN conns : conns[i].ev = "addfail")
       => /\ last'.cb = "none"
          /\ pc' # "loop_pass"
          /\ exit_status' # 0]_vars

\* main has called event_base_dispatch: the last setup step succeeded.
DispatchEntered == levAdded

\* C10: the exit status is 0 exactly when the loop was entered and
\* event_base_dispatch returned, and 1 exactly when a setup step failed.
C10_ExitStatus ==
  pc = "exited" =>
    /\ (exit_status = 0) <=> DispatchEntered
    /\ (exit_status = 1) <=> (failed # {})
    /\ failed # {} => ~DispatchEntered

\* The read registrations pending on descriptor fd: the :8888 listener's
\* event, the raw connections' events and the bufferevents' read events.
ReadRegs(fd) ==
       (IF listenerAdded /\ listener = fd THEN {<<"listener", 0>>} ELSE {})
  \cup {<<"raw", i>> : i \in {j \in DOMAIN conns :
                                conns[j].ev = "added" /\ conns[j].fd = fd}}
  \cup {<<"bev", i>> : i \in {j \in DOMAIN bevs :
                                bevs[j].alive /\ bevs[j].enabled
                                /\ bevs[j].fd = fd}}

\* C11: in every reachable state each descriptor has at most one active read
\* registration, also when a descriptor number is used again after a
\* bufferevent's descriptor was closed.
C11_OneReadRegistration ==
  \A fd \in Fds : Cardinality(ReadRegs(fd)) <= 1

\* C11's case: a released bufferevent's descriptor number has been handed out
\* again and the new connection on it has its read registration.
C11_Witness ==
  \E b \in DOMAIN bevs :
    /\ ~bevs[b].alive
    /\ bevs[b].fd \in openFds
    /\ Cardinality(ReadRegs(bevs[b].fd)) = 1

\* C12: when cb_read_socket receives n bytes, 1 <= n <= 1024, on raw
\* connection c it reports exactly the n bytes it took from the descriptor
\* and leaves c's persistent registration and every other registration as
\* they were, so that c is ready again as soon as its descriptor is readable;
\* when it sees the client's close it removes c's registration only and the
\* :8888 listener stays registered.
C12_ReadKeepsRegistration ==
  [][\A c \in DOMAIN conns :
       (last'.cb = "cb_read_socket" /\ last'.id = c)
       => LET fd == conns[c].fd
              n == last'.n
          IN /\ n <= BUF_SIZE
             /\ conns[c].ev = "added"
             /\ bevs' = bevs
             /\ FixedRegs' = FixedRegs
             /\ listenerAdded'
             /\ IF n >= 1
                  THEN /\ sock[fd].avail - sock'[fd].avail = n
                       /\ conns' = conns
                       /\ (sock'[fd].avail > 0 \/ sock'[fd].st \in {"fin", "err"})
                            => <<"raw", c>> \in Ready'
                  ELSE /\ sock'[fd] = sock[fd]
                       /\ conns' = [conns EXCEPT ![c].ev = "deleted"]]_vars

\* C12's case: cb_read_socket has just reported the 5 bytes a client sent and
\* the connection's registration and the listener are active.
C12_Witness ==
  /\ last.cb = "cb_read_socket" /\ last.n = 5
  /\ conns[last.id].ev = "added"
  /\ sock[conns[last.id].fd].avail = 0
  /\ listenerAdded

\* The value of a digit character.
DigitVal(c) == CHOOSE d \in 0..9 : Digits[d + 1] = c

\* t is the decimal numeral of n: digits only, no leading zero, value n.
IsDecimalOf(t, n) ==
  /\ Len(t) \in 1..3
  /\ \A k \in 1..Len(t) : \E d \in 1..10 : Digits[d] = t[k]
  /\ Len(t) > 1 => t[1] # "0"
  /\ n = IF Len(t) = 1 THEN DigitVal(t[1])
         ELSE IF Len(t) = 2 THEN 10 * DigitVal(t[1]) + DigitVal(t[2])
         ELSE 100 * DigitVal(t[1]) + 10 * DigitVal(t[2]) + DigitVal(t[3])

\* t is the dotted quad of the octets b: four numerals and three dots.
IsDottedQuad(t, b) ==
  \E l1, l2, l3, l4 \in 1..3 :
    /\ Len(t) = l1 + l2 + l3 + l4 + 3
    /\ t[l1 + 1] = "." /\ t[l1 + l2 + 2] = "." /\ t[l1 + l2 + l3 + 3] = "."
    /\ IsDecimalOf(SubSeq(t, 1, l1), b[1])
    /\ IsDecimalOf(SubSeq(t, l1 + 2, l1 + l2 + 1), b[2])
    /\ IsDecimalOf(SubSeq(t, l1 + l2 + 3, l1 + l2 + l3 + 2), b[3])
    /\ IsDecimalOf(SubSeq(t, l1 + l2 + l3 + 4, Len(t)), b[4])

\* A call of format_address has returned a buffer.
FmtDone == call.fn = "format_address" /\ call.pc = "done" /\ call.buf # NULL

\* C13: format_address maps every network-order address to its dotted quad:
\* the four octets in network order, in decimal, separated by dots;
\* 192.168.1.1 gives "192.168.1.1" and 0 gives "0.0.0.0".
C13_DottedQuad ==
  FmtDone =>
    /\ IsDottedQuad(call.text, call.bytes)
    /\ call.bytes = <<192, 168, 1, 1>> =>
         call.text = <<"1", "9", "2", ".", "1", "6", "8", ".", "1", ".", "1">>
    /\ call.bytes = <<0, 0, 0, 0>> =>
         call.text = <<"0", ".", "0", ".", "0", ".", "0">>

\* C19: the bytes sprintf stores for any address, the terminating NUL
\* included, fit in the 15 bytes format_address allocates.
C19_FitsBuffer ==
  FmtDone => call.stored <= call.buf

\* C14: within one dispatch pass every registration whose interest is
\* satisfied at the start of the pass has its callback invoked exactly once:
\* the pass starts with exactly the ready registrations active, an active
\* callback leaves the queue only by being invoked, it is invoked once, and
\* the pass does not end while one is still to run, whatever the other
\* callbacks of the pass add or remove.
C14_OncePerPass ==
  /\ [](pc # "loop_pass" => activeq = {})
  /\ [][/\ (pc = "loop_top" /\ pc' = "loop_pass") => activeq' = Ready
        /\ pc = "loop_pass" =>
             /\ \A e \in activeq : e \notin activeq' => e = EntryOf(last')
             /\ last'.cb # "none" =>
                  /\ EntryOf(last') \in activeq
                  /\ EntryOf(last') \notin activeq'
             /\ last'.cb \in {"cb_sigint", "cb_lev_accept"} => last'.n = 1]_vars

\* Every variable but the count of SIGINTs caught and the record of the
\* latest callback.
BesidesSignal ==
  <<pc, exit_status, failed, openFds, sock, pending88, pending77, timerAdded,
    timer_left, sigintAdded, listenerAdded, levAdded, conns, bevs, activeq,
    event_gotterm, listener, nwrites>>

\* C15: once exit has been requested a further SIGINT delivered before
\* event_base_dispatch returns is a no-op: the delivery changes nothing but
\* the count of caught signals, that count is never looked at again (no new
\* poll, no further invocation of cb_sigint), and the loop returns at the top
\* of the next iteration as it would have without the delivery.
C15_SecondSignalNoOp ==
  [][ExitRequested =>
       /\ sig_ncaught' >= sig_ncaught
       /\ sig_ncaught' # sig_ncaught => BesidesSignal' = BesidesSignal
       /\ last'.cb # "cb_sigint"
       /\ pc = "loop_top" => (event_gotterm /\ pc' \in {"loop_top", "returned"})
       /\ ExitRequested']_vars

\* C15's case: exit has been requested, the pass is still running and a
\* further SIGINT has been caught.
C15_Witness ==
  /\ pc = "loop_pass" /\ event_gotterm /\ activeq # {}
  /\ sig_ncaught > 0

\* C16: a raw connection goes from accept through reads to one disconnect:
\* cb_read_socket is invoked only for a connection whose read registration is
\* active; once it has removed the registration the registration stays
\* removed and cb_read_socket is not invoked for that connection again; and
\* the descriptor of an accepted connection is open in every later state.
C16_RawLifecycle ==
  /\ [](\A c \in DOMAIN conns :
          /\ conns[c].fd >= 0 => conns[c].fd \in openFds
          /\ conns[c].ev = "deleted" => <<"raw", c>> \notin activeq)
  /\ [][/\ last'.cb = "cb_read_socket" => conns[last'.id].ev = "added"
        /\ \A c \in DOMAIN conns :
             conns[c].ev = "deleted" =>
               /\ ~(last'.cb = "cb_read_socket" /\ last'.id = c)
               /\ conns'[c] = conns[c]]_vars

\* C16's case: a raw connection's registration was removed on the peer's
\* close, its descriptor still polls readable and is open, and a later pass
\* has run another callback.
C16_Witness ==
  \E c \in DOMAIN conns :
    /\ conns[c].ev = "deleted"
    /\ sock[conns[c].fd].st = "fin"
    /\ conns[c].fd \in openFds
    /\ last.cb \in {"cb_timer", "cb_accept_conn", "cb_lev_accept"}

\* C17: while the loop runs, whatever accept failures, disconnects and
\* bufferevent errors have occurred, the timer, the SIGINT event, the :8888
\* listener and the :7777 listener are all registered, so something is always
\* registered with the base, and event_base_dispatch has returned only if
\* exit was requested by the SIGINT callback.
C17_FixedRegsStay ==
  /\ pc \in LoopPcs =>
       /\ timerAdded /\ sigintAdded /\ listenerAdded /\ levAdded
       /\ event_haveevents
  /\ pc = "returned" => event_gotterm
  /\ (pc = "exited" /\ exit_status = 0) => event_gotterm

\* C17's case: an accept on :8888 has failed, a bufferevent has just been
\* released on an error, exit has not been requested and the loop runs.
C17_Witness ==
  /\ pc \in LoopPcs /\ ~ExitRequested
  /\ \E c \in DOMAIN conns : conns[c].ev = "null"
  /\ last.cb = "cb_lev_event" /\ last.n = -1
  /\ ~bevs[last.id].alive
  /\ timerAdded /\ sigintAdded /\ listenerAdded /\ levAdded

\* The flags a bufferevent's event callback can be called with
\* (event2/bufferevent.h).
BEV_EVENTS ==
  {"BEV_EVENT_READING", "BEV_EVENT_WRITING", "BEV_EVENT_EOF",
   "BEV_EVENT_ERROR", "BEV_EVENT_TIMEOUT", "BEV_EVENT_CONNECTED"}

\* Bufferevents of a connection being served, as cb_lev_accept makes them,
\* idle or with input buffered.
LiveBevs ==
  [fd : {5}, alive : {TRUE}, enabled : BOOLEAN, inbuf : {0, 2000 - BUF_SIZE},
   sent : {2000}, delivered : {0, BUF_SIZE}, close_on_free : {TRUE}]

\* C18: a bufferevent is released at most once (once released it stays so),
\* after its release neither cb_lev_read_socket nor cb_lev_event is invoked
\* for it, and cb_lev_event called with flags that hold neither
\* BEV_EVENT_EOF nor BEV_EVENT_ERROR releases nothing and leaves the
\* bufferevent as it is.
C18_ReleasedOnce ==
  /\ [][/\ last'.cb \in {"cb_lev_read_socket", "cb_lev_event"} =>
             bevs[last'.id].alive
        /\ \A b \in DOMAIN bevs : ~bevs[b].alive => bevs'[b] = bevs[b]]_vars
  /\ [](\A bev \in LiveBevs :
          \A events \in SUBSET (BEV_EVENTS \ {"BEV_EVENT_EOF", "BEV_EVENT_ERROR"}) :
            cb_lev_event(bev, events) = bev)

\* C18's case: a bufferevent was released, its descriptor number went to a
\* new connection, and cb_lev_read_socket has just run for the new one.
C18_Witness ==
  /\ last.cb = "cb_lev_read_socket"
  /\ bevs[last.id].alive
  /\ \E b \in DOMAIN bevs :
       /\ b # last.id
       /\ ~bevs[b].alive
       /\ bevs[b].fd = bevs[last.id].fd

\* C20: in cb_accept_conn the conn_state_t is an allocated record whenever
\* accept has returned a connection, whose address it writes into the record
\* and whose read event is then stored in it: a failed calloc never leads to
\* either, and the process does not fault.
C20_StateAllocated ==
  /\ (last.cb = "cb_accept_conn" /\ last.n >= 0) => last.id # NULL
  /\ pc # "crashed"

====
